---- MODULE Spec2Model ----
(***************************************************************************)
(* A model of shrink-movies.go: the directory walk, the per-file transcode *)
(* with its destination naming, the size-ratio retention rule and the      *)
(* file swap, over a small file system.                                    *)
(*                                                                         *)
(* Paths and file names are sequences of one-character strings, so that    *)
(* filepath.Join/Dir/Base/Ext, strings.ToLower and the date regular        *)
(* expression are computed on the characters, as the code computes them.   *)
(***************************************************************************)
EXTENDS Integers, Sequences, FiniteSets, TLC

(***************************************************************************)
(* Bounds of the model.                                                    *)
(***************************************************************************)
\* at most this many files exist in the initial tree
MaxEntries == 3
\* at most this many environment faults (failed system calls, failed
\* transcodes) are injected in one behaviour
MaxFaults == 1
\* the program is run again, any number of times, on the trees that began
\* with at most this many files
MaxRerunEntries == 1
\* the concurrency limits L the bound is stated for are 1..MaxLimit
MaxLimit == 2

(***************************************************************************)
(* Characters and strings.                                                 *)
(***************************************************************************)
\* the characters of the model in byte order ('.' < '/' < digits < upper < '_' < lower)
Ascii ==
  <<".", "/", "0", "1", "2", "3", "4", "5", "6", "7", "8", "9",
    "A", "B", "C", "D", "E", "F", "G", "H", "I", "J", "K", "L", "M",
    "N", "O", "P", "Q", "R", "S", "T", "U", "V", "W", "X", "Y", "Z", "_",
    "a", "b", "c", "d", "e", "f", "g", "h", "i", "j", "k", "l", "m",
    "n", "o", "p", "q", "r", "s", "t", "u", "v", "w", "x", "y", "z">>

Upper ==
  <<"A", "B", "C", "D", "E", "F", "G", "H", "I", "J", "K", "L", "M",
    "N", "O", "P", "Q", "R", "S", "T", "U", "V", "W", "X", "Y", "Z">>

Lower ==
  <<"a", "b", "c", "d", "e", "f", "g", "h", "i", "j", "k", "l", "m",
    "n", "o", "p", "q", "r", "s", "t", "u", "v", "w", "x", "y", "z">>

Digits == <<"0", "1", "2", "3", "4", "5", "6", "7", "8", "9">>

Code(c) == CHOOSE i \in 1..Len(Ascii) : Ascii[i] = c

IsDigit(c) == \E i \in 1..Len(Digits) : Digits[i] = c

DigitVal(c) == (CHOOSE i \in 1..Len(Digits) : Digits[i] = c) - 1

\* byte-wise string order, the order ioutil.ReadDir sorts file names in
RECURSIVE StrLess(_, _)
StrLess(a, b) ==
  IF b = <<>> THEN FALSE
  ELSE IF a = <<>> THEN TRUE
  ELSE IF Code(Head(a)) # Code(Head(b)) THEN Code(Head(a)) < Code(Head(b))
  ELSE StrLess(Tail(a), Tail(b))

\* strings.ToLower on one character and on a string
ToLowerChar(c) ==
  IF \E i \in 1..Len(Upper) : Upper[i] = c
  THEN Lower[CHOOSE i \in 1..Len(Upper) : Upper[i] = c]
  ELSE c

ToLower(s) == [i \in 1..Len(s) |-> ToLowerChar(s[i])]

\* the index of the last path separator of p, 0 when there is none
LastSlash(p) ==
  IF \E i \in 1..Len(p) : p[i] = "/"
  THEN CHOOSE i \in 1..Len(p) : p[i] = "/" /\ \A j \in (i+1)..Len(p) : p[j] # "/"
  ELSE 0

\* filepath.Clean, for the paths the program builds: no "..", no doubled or
\* trailing separator; a leading "./" is dropped and the empty path is "."
RECURSIVE Clean(_)
Clean(p) ==
  IF p = <<>> THEN <<".">>
  ELSE IF Len(p) >= 2 /\ p[1] = "." /\ p[2] = "/" THEN Clean(SubSeq(p, 3, Len(p)))
  ELSE p

\* filepath.Join of two elements: empty elements are ignored, the result is cleaned
Join(a, b) ==
  IF a = <<>> /\ b = <<>> THEN <<>>
  ELSE IF a = <<>> THEN Clean(b)
  ELSE IF b = <<>> THEN Clean(a)
  ELSE Clean(a \o <<"/">> \o b)

\* filepath.Base: the last element of the path
Base(p) ==
  IF p = <<>> THEN <<".">>
  ELSE SubSeq(p, LastSlash(p) + 1, Len(p))

\* filepath.Dir: all but the last element of the path, cleaned
Dir(p) ==
  LET i == LastSlash(p)
  IN IF i = 0 THEN <<".">>
     ELSE IF i = 1 THEN <<"/">>
     ELSE SubSeq(p, 1, i - 1)

\* filepath.Ext: the suffix beginning at the final dot of the last element
Ext(p) ==
  LET b == SubSeq(p, LastSlash(p) + 1, Len(p))
  IN IF \E i \in 1..Len(b) : b[i] = "."
     THEN SubSeq(b, CHOOSE i \in 1..Len(b) :
                       b[i] = "." /\ \A j \in (i+1)..Len(b) : b[j] # ".", Len(b))
     ELSE <<>>

MovieExts ==
  { <<".", "m", "p", "g">>, <<".", "m", "p", "e", "g">>, <<".", "a", "v", "i">>,
    <<".", "m", "p", "4">>, <<".", "3", "g", "p">>, <<".", "m", "o", "v">> }

\* IsMovie: the lowercased extension is one of the six movie extensions
IsMovie(fileName) == ToLower(Ext(fileName)) \in MovieExts

(***************************************************************************)
(* Times. A time is its date and its time of day as Format prints them.    *)
(***************************************************************************)
DateDigits == 8

Time(ymd, hms) == [ymd |-> ymd, hms |-> hms]

Midnight == <<"0", "0", "0", "0", "0", "0">>

\* time.Date(2000, time.January, 1, 0, 0, 0, 0, time.UTC)
SentinelTime == Time(<<"2", "0", "0", "0", "0", "1", "0", "1">>, Midnight)

\* the zero time.Time, which time.Parse returns with an error
ZeroTime == Time(<<"0", "0", "0", "1", "0", "1", "0", "1">>, Midnight)

\* the number a string of digits writes
RECURSIVE NumVal(_)
NumVal(s) == IF s = <<>> THEN 0 ELSE 10 * NumVal(SubSeq(s, 1, Len(s) - 1)) + DigitVal(s[Len(s)])

DaysIn(year, month) ==
  IF month = 2
  THEN IF year % 4 = 0 /\ (year % 100 # 0 \/ year % 400 = 0) THEN 29 ELSE 28
  ELSE IF month \in {4, 6, 9, 11} THEN 30 ELSE 31

\* time.Parse("20060102", dateStr): the date at 00:00:00, or the zero time
\* when the digits are no calendar date (the error is dropped)
ParseDate(dateStr) ==
  LET year == NumVal(SubSeq(dateStr, 1, 4))
      month == NumVal(SubSeq(dateStr, 5, 6))
      day == NumVal(SubSeq(dateStr, 7, 8))
  IN IF month \in 1..12 /\ day \in 1..DaysIn(year, month)
     THEN Time(dateStr, Midnight)
     ELSE ZeroTime

\* modTime.Format("20060102_150405")
Format(t) == t.ymd \o <<"_">> \o t.hms

\* the regular expression ^(\d{8})_.* matched against the whole string
MatchesDate(s) ==
  /\ Len(s) >= DateDigits + 1
  /\ \A i \in 1..DateDigits : IsDigit(s[i])
  /\ s[DateDigits + 1] = "_"

DigitOf(n) == Digits[n + 1]

\* fmt.Sprintf("%04d", i), for the counters below 10000
Pad4(i) ==
  <<DigitOf((i \div 1000) % 10), DigitOf((i \div 100) % 10),
    DigitOf((i \div 10) % 10), DigitOf(i % 10)>>

(***************************************************************************)
(* The state.                                                              *)
(***************************************************************************)
VARIABLES
  inDir,       \* the -i flag
  fs,          \* the files: path -> [of, kind, size, mtime]
  dirs,        \* the directories of the input tree
  unreadable,  \* the directories whose listing fails
  pc,          \* where main is: "main", "loop", "done", or how it died
  fileList,    \* the list addFilesToList built
  idx,         \* the index in fileList of the next file of process's loop
  active,      \* the indexes of the files whose ffmpeg is running
  hist,        \* one record per processFile call of this run, in call order
  justDone,    \* the index of the call that returned in the last step, or 0
  tree0,       \* the files of the input tree when the first run began
  shrunk,      \* some transcode of some run gave an output under 93% of its input
  faults,      \* the faults injected so far
  again        \* the program has been run before on this tree

vars ==
  <<inDir, fs, dirs, unreadable, pc, fileList, idx, active, hist, justDone,
    tree0, shrunk, faults, again>>

(***************************************************************************)
(* The names and files of the initial trees.                               *)
(***************************************************************************)
NameA == <<"2", "0", "1", "6", "0", "5", "1", "3", "_", "a", ".", "M", "P", "4">>
NameB == <<"2", "0", "1", "6", "0", "5", "1", "3", "_", "b", ".", "m", "o", "v">>
NameN == <<"n", ".", "t", "x", "t">>
NameC == <<"c", ".", "a", "v", "i">>
NameX == <<"x", ".", "m", "p", "4">>
NameY == <<"y", ".", "m", "p", "e", "g">>
DirD == <<"d">>
DirH == <<".", "h">>
DirHV == <<".", "h", "/", "v">>
Dot == <<".">>
RootAbs == <<"/", "m">>

\* the values of the -i flag: the working directory, an absolute path
InDirs == { Dot, RootAbs }

\* the directory ioutil.TempDir("", "shrink-file") makes in main, and the one
\* ioutil.TempDir("", "swap") makes in swapFiles: both outside the input tree
TmpDir == <<"/", "t">>
SwapDir == <<"/", "s">>

MTime1 == Time(<<"2", "0", "1", "9", "0", "7", "0", "4">>, <<"1", "0", "2", "0", "3", "0">>)
MTime2 == Time(<<"2", "0", "2", "1", "0", "1", "0", "2">>, <<"0", "3", "0", "4", "0", "5">>)
\* the modification time of a file written during a run
Now == Time(<<"2", "0", "2", "4", "0", "6", "0", "7">>, <<"0", "8", "0", "9", "1", "0">>)

\* the directories below the root, relative to it
SubDirs == { DirD, DirH, DirHV }

\* the files an initial tree is drawn from; listed says whether the file is a
\* movie outside every hidden directory (what the walk is expected to list)
Candidates ==
  { [dir |-> <<>>,  name |-> NameA, size |-> 100, mtime |-> MTime1, listed |-> TRUE],
    [dir |-> <<>>,  name |-> NameB, size |-> 200, mtime |-> MTime1, listed |-> TRUE],
    [dir |-> <<>>,  name |-> NameN, size |-> 100, mtime |-> MTime2, listed |-> FALSE],
    [dir |-> DirD,  name |-> NameC, size |-> 100, mtime |-> MTime2, listed |-> TRUE],
    [dir |-> DirH,  name |-> NameX, size |-> 100, mtime |-> MTime2, listed |-> FALSE],
    [dir |-> DirHV, name |-> NameY, size |-> 100, mtime |-> MTime2, listed |-> FALSE] }

\* the sizes ffmpeg's output may have
OutSizes == { 92, 93, 186 }

PathOf(root, c) == Join(Join(root, c.dir), c.name)

Original(root, c) ==
  [of |-> PathOf(root, c), kind |-> "orig", size |-> c.size, mtime |-> c.mtime]

TreeFiles(root, cs) ==
  [p \in { PathOf(root, c) : c \in cs } |->
     Original(root, CHOOSE c \in cs : PathOf(root, c) = p)]

\* the paths below the temporary directories
UnderDir(d, p) == Len(p) > Len(d) /\ SubSeq(p, 1, Len(d)) = d /\ p[Len(d) + 1] = "/"

\* the files of the input tree: everything outside the temporary directories
TreeOf(f) ==
  [p \in { q \in DOMAIN f : ~UnderDir(TmpDir, q) /\ ~UnderDir(SwapDir, q) } |-> f[p]]

\* os.RemoveAll(d)
RemoveAll(f, d) == [p \in { q \in DOMAIN f : ~UnderDir(d, q) } |-> f[p]]

\* os.Remove(p)
Remove(f, p) == [q \in DOMAIN f \ {p} |-> f[q]]

\* writing a file
Put(f, p, c) == [q \in DOMAIN f \cup {p} |-> IF q = p THEN c ELSE f[q]]

Init ==
  /\ inDir \in InDirs
  /\ \E cs \in SUBSET Candidates :
       /\ Cardinality(cs) <= MaxEntries
       /\ fs = TreeFiles(inDir, cs)
  /\ dirs = { Clean(inDir) } \cup { Join(inDir, d) : d \in SubDirs }
  /\ unreadable \in { {} } \cup { {d} : d \in dirs }
  /\ pc = "main"
  /\ fileList = <<>>
  /\ idx = 1
  /\ active = {}
  /\ hist = <<>>
  /\ justDone = 0
  /\ tree0 = fs
  /\ shrunk = FALSE
  /\ faults = 0
  /\ again = FALSE

(***************************************************************************)
(* addFilesToList.                                                         *)
(***************************************************************************)
\* the names ioutil.ReadDir(dir) returns, as a set
ReadDirNames(dir) ==
  { Base(p) : p \in { q \in DOMAIN fs \cup dirs : q # dir /\ Dir(q) = dir } }

\* ioutil.ReadDir returns the entries sorted by file name
RECURSIVE SortNames(_)
SortNames(S) ==
  IF S = {} THEN <<>>
  ELSE LET m == CHOOSE x \in S : \A y \in S \ {x} : StrLess(x, y)
       IN <<m>> \o SortNames(S \ {m})

\* ReadDir with the fault of its error being dropped
ReadDirNeverFails(dir) == FALSE

\* ioutil.ReadDir(inDirName) returns an error
ReadDirFails(dir) == dir \in unreadable

\* the hidden test with the fault of hidden directories being entered
IsHiddenNever(dirName) == FALSE

\* dirName[0] == '.'
IsHidden(dirName) == dirName[1] = "."

\* addFilesToList(inDirName, fileList): acc is the list so far and whether
\* log.Fatal has been reached; WalkEntries is the loop over the entries
RECURSIVE addFilesToList(_, _)
RECURSIVE WalkEntries(_, _, _)
WalkEntries(inDirName, names, acc) ==
  IF ~acc.ok \/ names = <<>> THEN acc
  ELSE LET name == Head(names)
           path == Join(inDirName, name)
       IN IF path \in dirs
          THEN IF IsHidden(name)
               THEN WalkEntries(inDirName, Tail(names), acc)
               ELSE WalkEntries(inDirName, Tail(names), addFilesToList(path, acc))
          ELSE IF IsMovie(name)
               THEN WalkEntries(inDirName, Tail(names),
                                [acc EXCEPT !.list = Append(@, path)])
               ELSE WalkEntries(inDirName, Tail(names), acc)

addFilesToList(inDirName, acc) ==
  IF ReadDirFails(inDirName)
  THEN [acc EXCEPT !.ok = FALSE]
  ELSE WalkEntries(inDirName, SortNames(ReadDirNames(inDirName)), acc)

Walked == addFilesToList(Clean(inDir), [ok |-> TRUE, list |-> <<>>])

(***************************************************************************)
(* main and process, up to the loop.                                       *)
(***************************************************************************)
\* process: a directory of the walk cannot be listed, log.Fatal
TraverseFatal ==
  /\ pc = "main"
  /\ ~Walked.ok
  /\ pc' = "walkfatal"
  /\ UNCHANGED <<inDir, fs, dirs, unreadable, fileList, idx, active, hist,
                 justDone, tree0, shrunk, faults, again, again>>

\* process: the list is built and the loop begins
Traverse ==
  /\ pc = "main"
  /\ Walked.ok
  /\ fileList' = Walked.list
  /\ idx' = 1
  /\ pc' = "loop"
  /\ UNCHANGED <<inDir, fs, dirs, unreadable, active, hist, justDone, tree0,
                 shrunk, faults, again>>

(***************************************************************************)
(* processFile and what it calls.                                          *)
(***************************************************************************)
\* getFileModTime(fileName): the date at the head of the string it is given,
\* else the file's modification time, else (os.Stat fails) the fixed date
getFileModTime(fileName, statOk) ==
  IF MatchesDate(fileName)
  THEN ParseDate(SubSeq(fileName, 1, DateDigits))
  ELSE IF statOk /\ fileName \in DOMAIN fs
       THEN fs[fileName].mtime
       ELSE SentinelTime

Mp4 == <<".", "m", "p", "4">>

\* the loop of processFile that looks for a name no file of tmpDir has
RECURSIVE DestLoop(_, _, _, _)
DestLoop(tmpDir, stem, destFile, i) ==
  IF destFile \notin DOMAIN fs
  THEN destFile
  ELSE DestLoop(tmpDir, stem, Join(tmpDir, stem \o <<"_">> \o Pad4(i) \o Mp4), i + 1)

\* the destination with the fault of being put beside the source file
DestFileBesideSource(sourceFile, tmpDir, modTime) ==
  DestLoop(Dir(sourceFile), Format(modTime),
           Join(Dir(sourceFile), Format(modTime) \o Mp4), 1)

\* destFile of processFile
DestFile(sourceFile, tmpDir, modTime) ==
  DestLoop(tmpDir, Format(modTime), Join(tmpDir, Format(modTime) \o Mp4), 1)

\* the test with the fault of <= for <
RatioAtMostThreshold(outSize, inSize) == 100 * outSize <= 93 * inSize

\* float64(outSize) / float64(inSize) < 0.93: the quotient of two sizes is
\* rounded to the double nearest to it and 0.93 is the double nearest to
\* 93/100, so below 2^53/100 bytes the test is outSize/inSize < 93/100; with
\* inSize = 0 the quotient is +Inf or NaN and the test is false
RatioBelowThreshold(outSize, inSize) == 100 * outSize < 93 * inSize

\* how a CopyFile ends: done, failed before dst was created, failed in io.Copy
CopyOutcomes == { "ok", "nocreate", "partial" }

\* CopyFile(src, dst)
CopyFile(f, src, dst, outcome) ==
  IF src \notin DOMAIN f \/ outcome = "nocreate" THEN f
  ELSE IF outcome = "ok" THEN Put(f, dst, [f[src] EXCEPT !.mtime = Now])
  ELSE Put(f, dst, [of |-> f[src].of, kind |-> "partial",
                    size |-> f[src].size \div 2, mtime |-> Now])

\* swapFiles(inFile, outFile) once its temporary directory exists: the file
\* system it leaves and the name it returns
swapFiles(f, inFile, outFile, c1, c2) ==
  LET f1 == CopyFile(f, inFile, Join(SwapDir, Base(inFile)), c1)
      f2 == Remove(f1, inFile)
      destFileName == Join(Dir(inFile), Base(outFile))
      f3 == CopyFile(f2, outFile, destFileName, c2)
      f4 == Remove(f3, outFile)
  IN [fs |-> RemoveAll(f4, SwapDir), dest |-> destFileName]

\* os.Chtimes(name, t, t)
Chtimes(f, name, t, ok) ==
  IF ok /\ name \in DOMAIN f THEN [f EXCEPT ![name].mtime = t] ELSE f

\* the call with the fault of not being waited for (a go statement)
CallNotAwaited == TRUE

\* process calls processFile and waits: the loop goes on, and process
\* returns, only when no call is running
CallReturned == active = {}

Attempt(src, t, dest) ==
  [src |-> src, time |-> t, dest |-> dest, result |-> "running",
   inSize |-> -1, outSize |-> -1, c1 |-> "-", c2 |-> "-"]

\* processFile, lines 102-114: the time, the destination name, ffmpeg starts
StartTranscode(statOk) ==
  /\ pc = "loop"
  /\ idx <= Len(fileList)
  /\ CallReturned
  /\ LET src == fileList[idx]
         t == getFileModTime(src, statOk)
     IN /\ statOk \/ (faults < MaxFaults /\ ~MatchesDate(src))
        /\ hist' = Append(hist, Attempt(src, t, DestFile(src, TmpDir, t)))
        /\ faults' = IF statOk THEN faults ELSE faults + 1
  /\ active' = active \cup {idx}
  /\ idx' = idx + 1
  /\ justDone' = 0
  /\ UNCHANGED <<inDir, fs, dirs, unreadable, pc, fileList, tree0, shrunk, again>>

\* what ffmpeg writes on success
Encoded(src, outSize) ==
  [of |-> fs[src].of, kind |-> "enc", size |-> outSize, mtime |-> Now]

\* cmd.Run() returns an error: logged, processFile returns it, process drops it
FfmpegFails(i, leftover) ==
  /\ i \in active
  /\ faults < MaxFaults \/ hist[i].src \notin DOMAIN fs
  /\ fs' = IF leftover /\ hist[i].src \in DOMAIN fs
           THEN Put(fs, hist[i].dest,
                    [of |-> fs[hist[i].src].of, kind |-> "partial", size |-> 0,
                     mtime |-> Now])
           ELSE fs
  /\ hist' = [hist EXCEPT ![i].result = "failed"]
  /\ faults' = IF hist[i].src \in DOMAIN fs THEN faults + 1 ELSE faults
  /\ active' = active \ {i}
  /\ justDone' = i
  /\ UNCHANGED <<inDir, dirs, unreadable, pc, fileList, idx, tree0, shrunk, again>>

\* ffmpeg succeeds and os.Open fails in getFileSize: fileInfo is nil and
\* fileInfo.Size() panics; main's deferred os.RemoveAll(tmpDir) runs
SizeReadPanics(i) ==
  /\ i \in active
  /\ hist[i].src \in DOMAIN fs
  /\ faults < MaxFaults
  /\ fs' = RemoveAll(fs, TmpDir)
  /\ hist' = [hist EXCEPT ![i].result = "panic"]
  /\ faults' = faults + 1
  /\ active' = active \ {i}
  /\ justDone' = i
  /\ pc' = "panic"
  /\ UNCHANGED <<inDir, dirs, unreadable, fileList, idx, tree0, shrunk, again>>

\* ffmpeg succeeds and the ratio is not below the threshold: only the log line
Discard(i, outSize) ==
  /\ i \in active
  /\ hist[i].src \in DOMAIN fs
  /\ ~RatioBelowThreshold(outSize, fs[hist[i].src].size)
  /\ fs' = Put(fs, hist[i].dest, Encoded(hist[i].src, outSize))
  /\ hist' = [hist EXCEPT ![i].result = "discard",
                          ![i].inSize = fs[hist[i].src].size,
                          ![i].outSize = outSize]
  /\ shrunk' = (shrunk \/ 100 * outSize < 93 * fs[hist[i].src].size)
  /\ active' = active \ {i}
  /\ justDone' = i
  /\ UNCHANGED <<inDir, dirs, unreadable, pc, fileList, idx, tree0, faults, again>>

\* the ratio is below the threshold and ioutil.TempDir fails in swapFiles:
\* log.Fatal, the process exits without running the deferred calls
SwapFatal(i, outSize) ==
  /\ i \in active
  /\ hist[i].src \in DOMAIN fs
  /\ RatioBelowThreshold(outSize, fs[hist[i].src].size)
  /\ faults < MaxFaults
  /\ fs' = Put(fs, hist[i].dest, Encoded(hist[i].src, outSize))
  /\ hist' = [hist EXCEPT ![i].result = "swapfatal",
                          ![i].inSize = fs[hist[i].src].size,
                          ![i].outSize = outSize]
  /\ shrunk' = (shrunk \/ 100 * outSize < 93 * fs[hist[i].src].size)
  /\ faults' = faults + 1
  /\ active' = active \ {i}
  /\ justDone' = i
  /\ pc' = "swapfatal"
  /\ UNCHANGED <<inDir, dirs, unreadable, fileList, idx, tree0, again>>

Failed(b) == IF b THEN 1 ELSE 0

\* the ratio is below the threshold: swapFiles, then os.Chtimes
Replace(i, outSize, c1, c2, chOk) ==
  /\ i \in active
  /\ hist[i].src \in DOMAIN fs
  /\ RatioBelowThreshold(outSize, fs[hist[i].src].size)
  /\ faults + Failed(c1 # "ok") + Failed(c2 # "ok") + Failed(~chOk) <= MaxFaults
  /\ LET made == Put(fs, hist[i].dest, Encoded(hist[i].src, outSize))
         swapped == swapFiles(made, hist[i].src, hist[i].dest, c1, c2)
     IN fs' = Chtimes(swapped.fs, swapped.dest, hist[i].time, chOk)
  /\ hist' = [hist EXCEPT ![i].result = "replace",
                          ![i].inSize = fs[hist[i].src].size,
                          ![i].outSize = outSize,
                          ![i].c1 = c1, ![i].c2 = c2]
  /\ shrunk' = (shrunk \/ 100 * outSize < 93 * fs[hist[i].src].size)
  /\ faults' = faults + Failed(c1 # "ok") + Failed(c2 # "ok") + Failed(~chOk)
  /\ active' = active \ {i}
  /\ justDone' = i
  /\ UNCHANGED <<inDir, dirs, unreadable, pc, fileList, idx, tree0, again>>

\* process returns; main logs "Done processing" and its deferred
\* os.RemoveAll(tmpDir) runs
Done ==
  /\ pc = "loop"
  /\ idx > Len(fileList)
  /\ CallReturned
  /\ pc' = "done"
  /\ fs' = RemoveAll(fs, TmpDir)
  /\ justDone' = 0
  /\ UNCHANGED <<inDir, dirs, unreadable, fileList, idx, active, hist, tree0,
                 shrunk, faults, again>>

\* the ways a run ends
Ended == { "walkfatal", "swapfatal", "panic", "done" }

\* the program is run again on the same directory, with a new temporary directory
Restart ==
  /\ pc \in Ended
  /\ Cardinality(DOMAIN tree0) <= MaxRerunEntries
  /\ pc' = "main"
  /\ fs' = RemoveAll(fs, TmpDir)
  /\ fileList' = <<>>
  /\ idx' = 1
  /\ active' = {}
  /\ hist' = <<>>
  /\ justDone' = 0
  /\ again' = TRUE
  /\ UNCHANGED <<inDir, dirs, unreadable, tree0, shrunk, faults>>

Next ==
  \/ TraverseFatal
  \/ Traverse
  \/ \E statOk \in BOOLEAN : StartTranscode(statOk)
  \/ \E i \in active, leftover \in BOOLEAN : FfmpegFails(i, leftover)
  \/ \E i \in active : SizeReadPanics(i)
  \/ \E i \in active, outSize \in OutSizes : Discard(i, outSize)
  \/ \E i \in active, outSize \in OutSizes : SwapFatal(i, outSize)
  \/ \E i \in active, outSize \in OutSizes, c1 \in CopyOutcomes, c2 \in CopyOutcomes,
        chOk \in BOOLEAN : Replace(i, outSize, c1, c2, chOk)
  \/ Done
  \/ Restart

Spec == Init /\ [][Next]_vars

(***************************************************************************)
(* The properties.                                                         *)
(***************************************************************************)
Returned(i) == hist[i].result # "running"

SizesRead(i) == hist[i].inSize >= 0 /\ hist[i].outSize >= 0

\* C1: an error local to one file never aborts the run: once a call of
\* processFile has ended, however it ended, the loop goes on or the run is
\* done.
C1_FailureIsolation ==
  \A i \in 1..Len(hist) : Returned(i) => pc \in { "loop", "done" }

C3_DistinctDestinations ==
  faults = 0 =>
    \A i, j \in 1..Len(hist) :
      (i < j /\ Format(hist[i].time) = Format(hist[j].time))
        => hist[i].dest # hist[j].dest

\* C4: for every limit L >= 1, at most L transcodes are running.
C4_ConcurrencyBound ==
  \A L \in 1..MaxLimit : Cardinality(active) <= L

\* a transcode is running and another file waits for it
C4_Witness ==
  /\ active # {}
  /\ idx <= Len(fileList)

\* C5: when a run that got past the walk has ended, every file of the list
\* has been attempted exactly once, in order, and each attempt has ended;
\* and the run is done only then.
C5_ExactlyOnce ==
  /\ pc \in { "done", "swapfatal", "panic" } =>
       /\ Len(hist) = Len(fileList)
       /\ \A i \in 1..Len(hist) : hist[i].src = fileList[i] /\ Returned(i)
  /\ pc = "done" => active = {}

\* C6: after a successful transcode of a file of more than 0 bytes whose
\* sizes were read, the swap is decided if and only if outSize/inSize is
\* strictly under 93/100, and the output is discarded otherwise.
C6_RetentionThreshold ==
  \A i \in 1..Len(hist) :
    (SizesRead(i) /\ hist[i].inSize > 0) =>
      /\ hist[i].result \in { "replace", "swapfatal" }
           <=> 100 * hist[i].outSize < 93 * hist[i].inSize
      /\ hist[i].result = "discard"
           <=> 100 * hist[i].outSize >= 93 * hist[i].inSize

\* one output at exactly 93% was discarded and another, smaller, replaced its source
C6_Witness ==
  /\ \E i \in 1..Len(hist) :
       /\ hist[i].result = "discard"
       /\ hist[i].inSize > 0
       /\ 100 * hist[i].outSize = 93 * hist[i].inSize
  /\ \E i \in 1..Len(hist) :
       /\ hist[i].result = "replace"
       /\ 100 * hist[i].outSize < 93 * hist[i].inSize

WalkedOk == pc \in { "loop", "done", "swapfatal", "panic" }

\* C7: the list addFilesToList builds holds exactly the movie files of the
\* tree that lie under no dot-prefixed directory, each once.
C7_WalkerExact ==
  (~again /\ WalkedOk) =>
    /\ \A c \in Candidates :
         (PathOf(inDir, c) \in DOMAIN tree0 /\ c.listed)
           <=> \E i \in 1..Len(fileList) : fileList[i] = PathOf(inDir, c)
    /\ \A i \in 1..Len(fileList) : fileList[i] \in DOMAIN tree0
    /\ \A i, j \in 1..Len(fileList) : i # j => fileList[i] # fileList[j]

\* a tree with a movie with an upper-case extension, a movie in a
\* subdirectory and a movie below a hidden directory has been walked
C7_Witness ==
  /\ ~again
  /\ pc = "loop"
  /\ Len(fileList) = 2
  /\ Join(inDir, NameA) \in DOMAIN tree0
  /\ Join(Join(inDir, DirD), NameC) \in DOMAIN tree0
  /\ Join(Join(inDir, DirHV), NameY) \in DOMAIN tree0

\* C8: for a file whose name (the last path element) begins with 8 digits
\* and an underscore, the time processFile resolves is that date at
\* 00:00:00, whatever the file's modification time and directory; stated
\* here for the runs in which no system call has failed.
C8_FilenameDateWins ==
  faults = 0 =>
    \A i \in 1..Len(hist) :
      MatchesDate(Base(hist[i].src))
        => hist[i].time = Time(SubSeq(Base(hist[i].src), 1, 8), Midnight)

\* the directories the walk lists: the root and its one visible subdirectory
ListedDirs == { Clean(inDir), Join(inDir, DirD) }

\* C9: if a directory of the walk cannot be listed, the run dies in the
\* walk, with no list built, no file transcoded and no file changed.
C9_TraversalFirst ==
  /\ (unreadable \cap ListedDirs # {}) =>
       /\ pc \in { "main", "walkfatal" }
       /\ fileList = <<>>
  /\ pc = "walkfatal" => unreadable \cap ListedDirs # {}
  /\ (unreadable \cap ListedDirs # {} \/ pc = "walkfatal") =>
       /\ hist = <<>>
       /\ active = {}
       /\ fs = tree0

\* the walk died on the subdirectory after it had passed a movie of the root
C9_Witness ==
  /\ pc = "walkfatal"
  /\ Join(inDir, DirD) \in unreadable
  /\ Join(inDir, NameA) \in DOMAIN fs

\* C10: when swapFiles has returned, the directory of the original holds the
\* complete transcoded file or the unmodified original.
C10_ReplaceKeepsMovie ==
  (justDone # 0 /\ hist[justDone].result = "replace") =>
    LET h == hist[justDone]
        d == Join(Dir(h.src), Base(h.dest))
    IN \/ /\ d \in DOMAIN fs
          /\ fs[d].kind = "enc"
          /\ fs[d].size = h.outSize
       \/ /\ h.src \in DOMAIN fs
          /\ fs[h.src].kind # "partial"
          /\ fs[h.src].size = h.inSize

====
